---------------------------- MODULE Spec2Model ----------------------------
(***************************************************************************)
(* A model of the ALM library (cash-flow schedules, gap tables, date       *)
(* schedules).  The library is a collection of pure functions; a behaviour *)
(* of the model is one call: `call` holds the function and its arguments,  *)
(* `pc` says whether the call has returned, `ret` holds what it returned   *)
(* (a value, or the exception it raised).                                  *)
(*                                                                         *)
(* Numbers.  Python floats are modelled as exact rationals <<"q", n, d>>   *)
(* (d > 0, lowest terms), NaN as <<"nan">>, and a number that depends on   *)
(* the fitted yield curve as a term over the curve's values.  Floating     *)
(* point rounding is therefore not modelled: equalities below are the      *)
(* exact-arithmetic ones.                                                  *)
(***************************************************************************)
EXTENDS Integers, Sequences, FiniteSets, TLC

VARIABLES call, ret, pc

vars == <<call, ret, pc>>

-----------------------------------------------------------------------------
(* Generic helpers *)

\* The one element of a singleton (used to name a value that is computed once)
Only(S) == CHOOSE x \in S : TRUE

Range(s) == {s[i] : i \in DOMAIN s}

Abs(x) == IF x < 0 THEN -x ELSE x

RECURSIVE GCD(_, _)
GCD(a, b) == IF b = 0 THEN a ELSE GCD(b, a % b)

RECURSIVE SumSeq(_)
SumSeq(s) == IF s = <<>> THEN 0 ELSE Head(s) + SumSeq(Tail(s))

\* The sequences of length n over the set S
SeqsOfLen(S, n) == [1..n -> S]

\* A raised exception / a returned value
Raise(e) == [ok |-> FALSE, err |-> e]
Return(v) == [ok |-> TRUE, val |-> v]
NoRet == [ok |-> FALSE, err |-> "not returned"]

-----------------------------------------------------------------------------
(* Numbers *)

\* The rational n/d in lowest terms, d > 0
Q(n, d) ==
    LET g == GCD(Abs(n), Abs(d))
        s == IF d < 0 THEN -1 ELSE 1
    IN <<"q", s * (n \div g), s * (d \div g)>>

QI(n) == <<"q", n, 1>>
Zero == QI(0)
One == QI(1)
NaN == <<"nan">>

IsQ(v) == v[1] = "q"
IsNaN(v) == v = NaN

VAdd(a, b) ==
    IF IsNaN(a) \/ IsNaN(b) THEN NaN
    ELSE IF IsQ(a) /\ IsQ(b) THEN Q(a[2] * b[3] + b[2] * a[3], a[3] * b[3])
    ELSE IF a = Zero THEN b
    ELSE IF b = Zero THEN a
    ELSE <<"add", a, b>>

VNeg(a) ==
    IF IsNaN(a) THEN NaN
    ELSE IF IsQ(a) THEN Q(-a[2], a[3])
    ELSE <<"neg", a>>

VSub(a, b) == VAdd(a, VNeg(b))

VMul(a, b) ==
    IF IsNaN(a) \/ IsNaN(b) THEN NaN
    ELSE IF IsQ(a) /\ IsQ(b) THEN Q(a[2] * b[2], a[3] * b[3])
    ELSE IF a = Zero \/ b = Zero THEN Zero
    ELSE IF a = One THEN b
    ELSE IF b = One THEN a
    ELSE <<"mul", a, b>>

\* a / b for b # 0
VDiv(a, b) ==
    IF IsNaN(a) \/ IsNaN(b) THEN NaN
    ELSE IF IsQ(a) /\ IsQ(b) THEN Q(a[2] * b[3], a[3] * b[2])
    ELSE IF b = One THEN a
    ELSE <<"div", a, b>>

RECURSIVE IntPow(_, _)
IntPow(b, k) == IF k = 0 THEN 1 ELSE b * IntPow(b, k - 1)

\* a ** (-k) for k >= 1, a # 0
VPowNeg(a, k) ==
    IF IsNaN(a) THEN NaN
    ELSE IF IsQ(a) THEN Q(IntPow(a[3], k), IntPow(a[2], k))
    ELSE <<"pow", a, QI(-k)>>

RECURSIVE VSum(_)
VSum(s) == IF s = <<>> THEN Zero ELSE VAdd(Head(s), VSum(Tail(s)))

-----------------------------------------------------------------------------
(* Calendar: datetime.datetime and dateutil.relativedelta *)

\* A datetime is <<year, month, day, tick>>, tick the time of day.  Python
\* counts microseconds; the model counts ticks of 1/TicksPerDay of a day, a
\* resolution that divides evenly by every divisor the drawn calls use, as
\* the microseconds of whole days do.
TicksPerDay == 60

IsLeap(y) == (y % 4 = 0 /\ y % 100 # 0) \/ y % 400 = 0

DaysInMonth(y, m) ==
    IF m = 2 THEN (IF IsLeap(y) THEN 29 ELSE 28)
    ELSE IF m \in {4, 6, 9, 11} THEN 30 ELSE 31

DaysBeforeYear(y) ==
    (y - 1) * 365 + (y - 1) \div 4 - (y - 1) \div 100 + (y - 1) \div 400

RECURSIVE DaysBeforeMonth(_, _)
DaysBeforeMonth(y, m) ==
    IF m = 1 THEN 0 ELSE DaysBeforeMonth(y, m - 1) + DaysInMonth(y, m - 1)

\* date.toordinal()
ToOrdinal(dt) == DaysBeforeYear(dt[1]) + DaysBeforeMonth(dt[1], dt[2]) + dt[3]

\* date.fromordinal(n), at midnight
FromOrdinal(n) ==
    LET y == CHOOSE yy \in (n \div 366)..(n \div 365 + 1) :
                 DaysBeforeYear(yy) < n /\ n <= DaysBeforeYear(yy + 1)
        r == n - DaysBeforeYear(y)
        m == CHOOSE mm \in 1..12 :
                 DaysBeforeMonth(y, mm) < r
                 /\ r <= DaysBeforeMonth(y, mm) + DaysInMonth(y, mm)
    IN <<y, m, r - DaysBeforeMonth(y, m), 0>>

\* A datetime as a number of ticks, and back
Ticks(dt) == ToOrdinal(dt) * TicksPerDay + dt[4]

FromTicks(n) ==
    LET d == FromOrdinal(n \div TicksPerDay)
    IN <<d[1], d[2], d[3], n % TicksPerDay>>

DtLess(a, b) == Ticks(a) < Ticks(b)
DtLeq(a, b) == Ticks(a) <= Ticks(b)

\* (a - b).days
DaysBetween(a, b) == (Ticks(a) - Ticks(b)) \div TicksPerDay

\* dt + relativedelta(months=k): the day is clipped to the month's last day
AddMonths(dt, k) ==
    LET total == dt[1] * 12 + (dt[2] - 1) + k
        y == total \div 12
        m == (total % 12) + 1
        last == DaysInMonth(y, m)
    IN <<y, m, IF dt[3] > last THEN last ELSE dt[3], dt[4]>>

\* datetime(d.year, d.month, d.day)
Truncate(dt) == <<dt[1], dt[2], dt[3], 0>>

\* timedelta / int: the quotient rounded to the nearest tick, ties to even
DivRound(a, b) ==
    LET q == a \div b
        r == a % b
    IN IF 2 * r < b THEN q
       ELSE IF 2 * r > b THEN q + 1
       ELSE IF q % 2 = 0 THEN q ELSE q + 1

-----------------------------------------------------------------------------
(* utils.py / timeutils.py: date_range (the two files hold the same code) *)

\* An optional argument: None, or a value
None == <<>>
Some(x) == <<x>>
IsNone(a) == a = None
The(a) == a[1]

\* A date argument: its Python type and the datetime it denotes
DateArg(type, dt) == Some([type |-> type, dt |-> dt])

\* Lines 116-134: start and end after the type checks.  A Timestamp end is
\* converted into `start` (line 130), and end keeps its value.
NormalStart(start, end) ==
    IF ~IsNone(end) /\ The(end).type = "Timestamp" THEN Some(The(end).dt)
    ELSE IF IsNone(start) THEN None
    ELSE Some(The(start).dt)

NormalEnd(end) == IF IsNone(end) THEN None ELSE Some(The(end).dt)

\* START - END - LENGTH (lines 144-151)
range_start_end_length(start, end, length) ==
    IF length = 1 THEN Raise("ZeroDivisionError")
    ELSE IF length < 1 THEN Return(<<>>)
    ELSE
      LET time_difference == Ticks(end) - Ticks(start)
          interval == DivRound(time_difference, length - 1)
      IN IF DtLess(start, end)
         THEN Return([i \in 1..length |->
                        Truncate(FromTicks(Ticks(start) + (i - 1) * interval))])
         ELSE Return([i \in 1..length |->
                        Truncate(FromTicks(Ticks(start) - (i - 1) * interval))])

\* START - LENGTH - STEP and END - LENGTH - STEP (lines 153-167); sign is +1
\* for current_date += relativedelta(months=step), -1 for -=
RECURSIVE range_length_step(_, _, _, _)
range_length_step(current_date, length, step, sign) ==
    IF length <= 0 THEN <<>>
    ELSE <<Truncate(current_date)>>
         \o range_length_step(AddMonths(current_date, sign * step), length - 1,
                              step, sign)

\* START - END - STEP (lines 169-180), for a step that moves towards end
RECURSIVE range_forward(_, _, _)
range_forward(current_date, end, step) ==
    IF ~DtLeq(current_date, end) THEN <<>>
    ELSE <<Truncate(current_date)>>
         \o range_forward(AddMonths(current_date, step), end, step)

RECURSIVE range_backward(_, _, _)
range_backward(current_date, end, step) ==
    IF ~DtLeq(end, current_date) THEN <<>>
    ELSE <<Truncate(current_date)>>
         \o range_backward(AddMonths(current_date, -step), end, step)

\* The while loops of lines 174-180.  With step = 0 the date never moves and
\* the loop does not end; with step < 0 the date moves away from end until
\* the year leaves datetime's range and the addition raises.
range_start_end_step(start, end, step) ==
    IF step = 0 THEN Raise("does not terminate")
    ELSE IF step < 0 THEN Raise("ValueError")
    ELSE IF DtLess(start, end) THEN Return(range_forward(start, end, step))
    ELSE Return(range_backward(start, end, step))

date_range(start0, end0, length, step) ==
    LET start == NormalStart(start0, end0)
        end == NormalEnd(end0)
        hasS == ~IsNone(start)
        hasE == ~IsNone(end)
        hasL == ~IsNone(length)
        hasP == ~IsNone(step)
    IN IF IsNone(start0) /\ IsNone(end0) /\ ~hasL /\ ~hasP
         THEN Raise("ValueError")                               \* 110-111
       ELSE IF ~IsNone(start0) /\ ~IsNone(end0) /\ hasL /\ hasP
         THEN Raise("ValueError")                               \* 113-114
       ELSE IF ~hasL /\ ~hasP THEN Raise("ValueError")          \* 137-138
       ELSE IF hasS /\ hasE /\ hasL
         THEN range_start_end_length(The(start), The(end), The(length))
       ELSE IF hasS /\ ~hasE /\ hasL /\ hasP
         THEN Return(range_length_step(The(start), The(length), The(step), 1))
       ELSE IF hasE /\ hasL /\ hasP /\ ~hasS
         THEN Return(range_length_step(The(end), The(length), The(step), -1))
       ELSE IF hasS /\ hasE /\ hasP
         THEN range_start_end_step(The(start), The(end), The(step))
       ELSE Raise("ValueError")                                 \* 182-184

-----------------------------------------------------------------------------
(* cashflow.py: amortization_schedule *)

\* The default index of a frame or array of n rows: labels 0..n-1
RangeIndex(n) == [i \in 1..n |-> i - 1]

\* np.full(maturity, rate): the scalar broadcast over the periods
np_full(maturity, rate) ==
    [kind |-> "array", dtype |-> rate.dtype, index |-> RangeIndex(maturity),
     vals |-> [i \in 1..maturity |-> rate.val]]

\* pd.DataFrame({'cashflow':.., 'interest':.., 'capital':.., 'remaining':..})
Frame(index, cashflow, interest, capital, remaining) ==
    [index |-> index, cashflow |-> cashflow, interest |-> interest,
     capital |-> capital, remaining |-> remaining]

\* The index of interest/cashflow: a Series operand keeps its own labels
ResultIndex(rate, maturity) ==
    IF rate.kind = "series" THEN rate.index ELSE RangeIndex(maturity)

\* Mutant of bullet_schedule: the principal is repaid in the first period
\* (capital[0] for capital[-1])
bullet_schedule_first(rate, maturity, volume) ==
    IF maturity = 0 THEN Raise("IndexError")
    ELSE
      LET interest == [i \in 1..maturity |-> VMul(rate.vals[i], volume)]
          capital == [i \in 1..maturity |-> IF i = 1 THEN volume ELSE Zero]
          remaining == [i \in 1..maturity |-> VSub(volume, capital[i])]
          cashflow == [i \in 1..maturity |-> VAdd(capital[i], interest[i])]
      IN Return(Frame(ResultIndex(rate, maturity), cashflow, interest, capital,
                      remaining))

bullet_schedule(rate, maturity, volume) ==
    IF maturity = 0 THEN Raise("IndexError")       \* capital[-1] of an empty array
    ELSE
      LET interest == [i \in 1..maturity |-> VMul(rate.vals[i], volume)]
          capital == [i \in 1..maturity |-> IF i = maturity THEN volume ELSE Zero]
          remaining == [i \in 1..maturity |-> VSub(volume, capital[i])]
          cashflow == [i \in 1..maturity |-> VAdd(capital[i], interest[i])]
      IN Return(Frame(ResultIndex(rate, maturity), cashflow, interest, capital,
                      remaining))

\* np.cumsum(capital)[i]
cumsum(s, i) == VSum(SubSeq(s, 1, i))

\* Mutant of linear_schedule: the interest is charged on the balance left
\* after the period's capital payment
linear_schedule_after(rate, maturity, volume) ==
    IF maturity = 0 THEN Raise("ZeroDivisionError")
    ELSE
      LET capital == [i \in 1..maturity |-> VMul(Q(1, maturity), volume)]
          remaining == [i \in 1..maturity |-> VSub(volume, cumsum(capital, i))]
          interest == [i \in 1..maturity |-> VMul(remaining[i], rate.vals[i])]
          cashflow == [i \in 1..maturity |-> VAdd(capital[i], interest[i])]
      IN Return(Frame(ResultIndex(rate, maturity), cashflow, interest, capital,
                      remaining))

linear_schedule(rate, maturity, volume) ==
    IF maturity = 0 THEN Raise("ZeroDivisionError")     \* 1/maturity
    ELSE
      LET capital == [i \in 1..maturity |-> VMul(Q(1, maturity), volume)]
          \* np.hstack((volume, volume - np.cumsum(capital)))[:-1]
          remaining == [i \in 1..maturity |->
                          IF i = 1 THEN volume
                          ELSE VSub(volume, cumsum(capital, i - 1))]
          interest == [i \in 1..maturity |-> VMul(remaining[i], rate.vals[i])]
          cashflow == [i \in 1..maturity |-> VAdd(capital[i], interest[i])]
      IN Return(Frame(ResultIndex(rate, maturity), cashflow, interest, capital,
                      remaining))

\* rate[i]: positional for an array, by label for a Series
HasItem(rate, i) ==
    IF rate.kind = "series" THEN i \in Range(rate.index) ELSE i < Len(rate.vals)

GetItem(rate, i) ==
    IF rate.kind = "series"
    THEN rate.vals[CHOOSE p \in DOMAIN rate.index : rate.index[p] = i]
    ELSE rate.vals[i + 1]

\* One period of the ANNUITY loop: <<cashflow[i], interest[i], capital[i]>>
annuity_period(r, n, remaining_i) ==
    LET discount_factor == VSub(One, VPowNeg(VAdd(One, r), n + 1))
        cashflow == IF r # Zero
                    THEN VMul(VDiv(r, discount_factor), remaining_i)
                    ELSE VDiv(remaining_i, QI(n + 1))
        interest == VMul(remaining_i, r)
    IN <<cashflow, interest, VSub(cashflow, interest)>>

\* The loop from period i on; acc is the frame built so far, balance is
\* remaining[i].  Returns the frame, or the exception the loop raised.
RECURSIVE annuity_loop(_, _, _, _, _)
annuity_loop(rate, maturity, i, balance, acc) ==
    IF i = maturity THEN Return(acc)
    ELSE IF ~HasItem(rate, i) THEN Raise("KeyError")
    \* (1 + rate[i]) ** (negative int) on an integer array
    ELSE IF rate.dtype = "int" THEN Raise("ValueError")
    ELSE
      LET p == annuity_period(GetItem(rate, i), maturity - i, balance)
          left == VSub(balance, p[3])
      IN annuity_loop(rate, maturity, i + 1, left,
                      Frame(RangeIndex(maturity),
                            Append(acc.cashflow, p[1]), Append(acc.interest, p[2]),
                            Append(acc.capital, p[3]), Append(acc.remaining, left)))

annuity_schedule(rate, maturity, volume) ==
    annuity_loop(rate, maturity, 0, volume,
                 Frame(RangeIndex(maturity), <<>>, <<>>, <<>>, <<>>))

amortization_schedule(rate, maturity, volume, payment_type) ==
    LET r == IF rate.kind = "scalar" THEN np_full(maturity, rate) ELSE rate
    IN CASE payment_type = "BULLET" -> bullet_schedule(r, maturity, QI(volume))
         [] payment_type = "LINEAR" -> linear_schedule(r, maturity, QI(volume))
         [] payment_type = "ANNUITY" -> annuity_schedule(r, maturity, QI(volume))
         [] OTHER -> Raise("TypeError")

-----------------------------------------------------------------------------
(* The calls drawn for amortization_schedule *)

MaxTenor == 12        \* longest schedule, for a zero rate
MaxPathLen == 3       \* longest schedule with a per-period or nonzero rate

Volumes == {1200, -500}
PaymentTypes == {"BULLET", "LINEAR", "ANNUITY", "PERPETUAL"}
PathRates == {Zero, Q(1, 2), One}

Scalar(dtype, v) == [kind |-> "scalar", dtype |-> dtype, val |-> v]
Array(vals) ==
    [kind |-> "array", dtype |-> "float", index |-> RangeIndex(Len(vals)),
     vals |-> vals]

AmortCalls ==
    {[fn |-> "amortization_schedule", rate |-> r, maturity |-> m,
      volume |-> v, payment_type |-> t] :
        r \in {Scalar("int", Zero), Scalar("float", Zero)},
        m \in 0..MaxTenor, v \in Volumes, t \in PaymentTypes}
    \cup
    {[fn |-> "amortization_schedule", rate |-> r, maturity |-> m,
      volume |-> v, payment_type |-> t] :
        r \in {Scalar("float", Q(1, 100)), Scalar("int", One)},
        m \in 0..MaxPathLen, v \in Volumes, t \in PaymentTypes \ {"ANNUITY"}}
    \cup
    UNION {{[fn |-> "amortization_schedule", rate |-> Array(p), maturity |-> m,
             volume |-> v, payment_type |-> t] :
               p \in SeqsOfLen(PathRates, m), v \in Volumes, t \in PaymentTypes} :
           m \in 1..MaxPathLen}

AmortizationSchedule ==
    /\ pc = "called"
    /\ call.fn = "amortization_schedule"
    /\ ret' = amortization_schedule(call.rate, call.maturity, call.volume,
                                    call.payment_type)
    /\ pc' = "returned"
    /\ UNCHANGED call

InitAmort == call \in AmortCalls /\ ret = NoRet /\ pc = "called"
NextAmort == AmortizationSchedule
SpecAmort == InitAmort /\ [][NextAmort]_vars

-----------------------------------------------------------------------------
(* Claims about amortization_schedule (checked under SpecAmort) *)

Returned(fn) == pc = "returned" /\ call.fn = fn

\* The rate of period i (1-based) as the caller supplied it
CallRate(i) == IF call.rate.kind = "scalar" THEN call.rate.val ELSE call.rate.vals[i]

AmortReturned(t) ==
    Returned("amortization_schedule") /\ call.payment_type = t /\ call.maturity >= 1

ZeroRatePath == \A i \in 1..call.maturity : CallRate(i) = Zero

\* C5: LINEAR reports, for every period i, the balance left after the capital
\* of periods 0..i has been repaid (so the last period reports 0).
C5_LinearRemainingAfterPayment ==
    AmortReturned("LINEAR") =>
        /\ ret.ok
        /\ \A i \in 1..call.maturity :
              ret.val.remaining[i]
                = VSub(QI(call.volume), cumsum(ret.val.capital, i))
        /\ ret.val.remaining[call.maturity] = Zero

\* C6: ANNUITY with rate 0 in every period returns a schedule with zero
\* interest, the same capital in every period, and the balance recursion
\* R[0] = principal, R[i+1] = R[i] - capital[i].
C6_ZeroRateAnnuityEqualCapital ==
    (AmortReturned("ANNUITY") /\ ZeroRatePath) =>
        /\ ret.ok
        /\ \A i \in 1..call.maturity :
              /\ ret.val.interest[i] = Zero
              /\ ret.val.capital[i] = ret.val.capital[1]
              /\ ret.val.capital[i] = ret.val.cashflow[i]
              /\ ret.val.remaining[i]
                   = VSub(IF i = 1 THEN QI(call.volume) ELSE ret.val.remaining[i - 1],
                          ret.val.capital[i])

\* C7: BULLET repays nothing before the last period and the whole principal
\* in the last one; interest is rate x principal in every period; the cash
\* flow is capital plus interest.
C7_BulletSchedule ==
    AmortReturned("BULLET") =>
        /\ ret.ok
        /\ DOMAIN ret.val.capital = 1..call.maturity
        /\ \A i \in 1..call.maturity :
              /\ ret.val.capital[i]
                   = (IF i = call.maturity THEN QI(call.volume) ELSE Zero)
              /\ ret.val.interest[i] = VMul(CallRate(i), QI(call.volume))
              /\ ret.val.cashflow[i] = VAdd(ret.val.capital[i], ret.val.interest[i])
        /\ VSum(ret.val.capital) = QI(call.volume)

W_C7_BulletSchedule ==
    /\ AmortReturned("BULLET") /\ ret.ok
    /\ call.maturity = MaxPathLen
    /\ call.rate.kind = "array"
    /\ CallRate(1) # CallRate(call.maturity)
    /\ CallRate(call.maturity) # Zero

\* C8: LINEAR repays principal/tenor in every period, the capital sums to the
\* principal, and the interest of period i (0-based) is the rate applied to
\* principal - i x principal/tenor, the balance before that period's payment.
C8_LinearSchedule ==
    AmortReturned("LINEAR") =>
        /\ ret.ok
        /\ DOMAIN ret.val.capital = 1..call.maturity
        /\ \A i \in 1..call.maturity :
              /\ ret.val.capital[i] = Q(call.volume, call.maturity)
              /\ ret.val.interest[i]
                   = VMul(VSub(QI(call.volume),
                               Q((i - 1) * call.volume, call.maturity)),
                          CallRate(i))
        /\ VSum(ret.val.capital) = QI(call.volume)

W_C8_LinearSchedule ==
    /\ AmortReturned("LINEAR") /\ ret.ok
    /\ call.maturity = MaxPathLen
    /\ \A i \in 1..call.maturity : CallRate(i) # Zero
    /\ CallRate(1) # CallRate(2)

-----------------------------------------------------------------------------
(* The calls drawn for date_range *)

MaxLength == 4        \* longest schedule asked for by length
MaxStep == 3          \* largest step in months

Today == <<2014, 9, 30, 0>>     \* set_today's default
CallDates ==
    {Today, <<2014, 10, 31, 0>>, <<2015, 1, 31, 0>>, <<2015, 9, 30, 0>>,
     <<2016, 2, 29, 0>>}
Noon == <<2014, 12, 15, 30>>    \* a datetime with a time of day

DateArgs ==
    {DateArg(t, d) : t \in {"str", "datetime", "Timestamp"}, d \in CallDates}
    \cup {DateArg("datetime", Noon), None}
LengthArgs == {Some(n) : n \in -1..MaxLength} \cup {None}
StepArgs == {Some(n) : n \in -1..MaxStep} \cup {None}

DateCalls ==
    {[fn |-> "date_range", start |-> s, end |-> e, length |-> l, step |-> p] :
        s \in DateArgs, e \in DateArgs, l \in LengthArgs, p \in StepArgs}

DateRange ==
    /\ pc = "called"
    /\ call.fn = "date_range"
    /\ ret' = date_range(call.start, call.end, call.length, call.step)
    /\ pc' = "returned"
    /\ UNCHANGED call

InitDates == call \in DateCalls /\ ret = NoRet /\ pc = "called"
NextDates == DateRange
SpecDates == InitDates /\ [][NextDates]_vars

-----------------------------------------------------------------------------
(* Claims about date_range (checked under SpecDates) *)

\* A call generate(start, end, length) with length >= 2 and start # end, the
\* dates given as strings or datetimes (what a Timestamp argument does to
\* start is the subject of C14)
StartEndLengthCall ==
    /\ Returned("date_range")
    /\ ~IsNone(call.start) /\ ~IsNone(call.end)
    /\ The(call.start).type # "Timestamp" /\ The(call.end).type # "Timestamp"
    /\ ~IsNone(call.start) /\ ~IsNone(call.end) /\ IsNone(call.step)
    /\ ~IsNone(call.length) /\ The(call.length) >= 2
    /\ The(call.start).dt # The(call.end).dt

\* C4: generate(start, end, length), length >= 2, start # end, returns length
\* dates from start to end (day-truncated), inside [start, end], increasing
\* when start < end and decreasing when start > end.
C4_StartEndLength ==
    StartEndLengthCall =>
        LET s == The(call.start).dt
            e == The(call.end).dt
            lo == IF DtLess(s, e) THEN Truncate(s) ELSE Truncate(e)
            hi == IF DtLess(s, e) THEN Truncate(e) ELSE Truncate(s)
        IN /\ ret.ok
           /\ Len(ret.val) = The(call.length)
           /\ ret.val[1] = Truncate(s)
           /\ ret.val[Len(ret.val)] = Truncate(e)
           /\ \A i \in DOMAIN ret.val : DtLeq(lo, ret.val[i]) /\ DtLeq(ret.val[i], hi)
           /\ \A i \in 1..(Len(ret.val) - 1) :
                 IF DtLess(s, e) THEN DtLeq(ret.val[i], ret.val[i + 1])
                 ELSE DtLeq(ret.val[i + 1], ret.val[i])

-----------------------------------------------------------------------------
(* cashflow.py / interest.py: repricing_gap and repricing_gap_table (the   *)
(* two files hold the same code)                                           *)

\* seq[::step]
RECURSIVE Slice(_, _)
Slice(seq, step) ==
    IF seq = <<>> THEN <<>>
    ELSE <<Head(seq)>>
         \o Slice(IF Len(seq) <= step THEN <<>> ELSE SubSeq(seq, step + 1, Len(seq)),
                  step)

\* time_difference(date, from_date, 'days')
time_difference_days(date, from_date) == DaysBetween(date, from_date)

\* date_range(start=a, end=b, step=1) on two datetimes
month_grid(a, b) ==
    date_range(DateArg("datetime", a), DateArg("datetime", b), None, Some(1)).val

\* The repricing dates of an instrument: the monthly grid from issue to
\* maturity, every reprice_freq-th date
reprice_grid(inst) == Slice(month_grid(inst.issue, inst.maturity), inst.reprice_freq)

\* np.digitize(x, np.arange(months_forward + 1) * 30): the number of bin
\* edges 0, 30, ..., months_forward*30 that are <= x
digitize(x, months_forward) == Cardinality({k \in 0..months_forward : k * 30 <= x})

\* np.bincount(idx[idx <= months_forward], minlength=months_forward+1)[label]
bincount(idx, months_forward, label) ==
    Cardinality({p \in DOMAIN idx : idx[p] <= months_forward /\ idx[p] = label})

\* pd.DataFrame({'volume': volume}).drop(0): the rows labelled 0..n-1 without
\* the row labelled 0
drop0(volume) ==
    IF volume = <<>> THEN Raise("KeyError")
    ELSE Return([index |-> [i \in 1..(Len(volume) - 1) |-> i],
                 volume |-> Tail(volume)])

\* Lines 191-208: the volume array before the frame is built
gap_volume(inst, today, months_forward) ==
    IF inst.ir_binding = "FIX" THEN [i \in 1..months_forward |-> 0]
    ELSE
      LET OnOrAfter(d) == DtLeq(today, d)
          reprice_dates == SelectSeq(reprice_grid(inst), OnOrAfter)
      IN IF reprice_dates = <<>> THEN [i \in 1..months_forward |-> 0]
         ELSE
           LET idx == [p \in DOMAIN reprice_dates |->
                         digitize(time_difference_days(reprice_dates[p], today),
                                  months_forward)]
           IN [i \in 1..(months_forward + 1) |->
                 bincount(idx, months_forward, i - 1) * inst.volume]

repricing_gap(portfolio, id, today, months_forward) ==
    drop0(gap_volume(portfolio[id], today, months_forward))

\* The value of a gap frame at a label; a label the frame lacks is NaN in
\* the concatenation, which sum(axis=1) skips
GapAt(gap, label) ==
    IF label \in Range(gap.index)
    THEN gap.volume[CHOOSE p \in DOMAIN gap.index : gap.index[p] = label]
    ELSE 0

\* The union of the frames' row labels, in ascending order
UnionIndex(gaps) ==
    LET labels == UNION {Range(gaps[i].index) : i \in DOMAIN gaps}
    IN [i \in 1..Cardinality(labels) |->
          CHOOSE l \in labels : Cardinality({x \in labels : x < l}) = i - 1]

repricing_gap_table(portfolio, today, months_forward) ==
    LET results == [i \in DOMAIN portfolio |->
                      repricing_gap(portfolio, i, today, months_forward)]
    IN IF \E i \in DOMAIN results : ~results[i].ok
         THEN Raise("KeyError")                 \* the first gap that raises
       ELSE IF portfolio = <<>> THEN Raise("ValueError")   \* nothing to concatenate
       ELSE
         LET gaps == [i \in DOMAIN results |-> results[i].val]
             index == UnionIndex(gaps)
             total_gap == [p \in DOMAIN index |->
                             SumSeq([i \in DOMAIN gaps |-> GapAt(gaps[i], index[p])])]
         IN \* repricing_gap_df.columns = [...]: the lengths must agree
            IF Len(total_gap) # months_forward THEN Raise("ValueError")
            ELSE Return([columns |-> [k \in 1..months_forward |-> ToString(k) \o "M"],
                         volume |-> total_gap])

-----------------------------------------------------------------------------
(* The calls drawn for repricing_gap and repricing_gap_table *)

MaxMonths == 3         \* largest months_forward
MaxPortfolio == 2      \* largest portfolio

GapTodays == {Today, <<2015, 1, 30, 0>>}

Instrument(account, volume, ir_binding, reprice_freq, spread, issue, maturity, repayment, payment_freq) ==
    [account |-> account, volume |-> volume, ir_binding |-> ir_binding,
     reprice_freq |-> reprice_freq, spread |-> spread, issue |-> issue,
     maturity |-> maturity, repayment |-> repayment, payment_freq |-> payment_freq,
     yieldcurve |-> "EUR01"]

GapInstruments ==
    {Instrument("A", v, b, rf, 200, i, m, "BULLET", 1) :
        v \in {1000, -500}, b \in {"LIBOR"}, rf \in {1, 3},
        i \in {<<2014, 9, 30, 0>>, <<2014, 10, 31, 0>>},
        m \in {<<2014, 12, 31, 0>>, <<2015, 9, 30, 0>>}}
    \cup
    {Instrument("A", v, "FIX", 1, 200, i, m, "BULLET", 1) :
        v \in {1000, -500},
        i \in {<<2014, 9, 30, 0>>, <<2014, 10, 31, 0>>},
        m \in {<<2014, 12, 31, 0>>, <<2015, 9, 30, 0>>}}

GapPortfolios == UNION {SeqsOfLen(GapInstruments, n) : n \in 0..MaxPortfolio}

GapCalls ==
    {[fn |-> "repricing_gap", portfolio |-> <<x>>, id |-> 1, today |-> t,
      months_forward |-> mf] :
        x \in GapInstruments, t \in GapTodays, mf \in 0..MaxMonths}
    \cup
    {[fn |-> "repricing_gap_table", portfolio |-> p, today |-> t,
      months_forward |-> mf] :
        p \in GapPortfolios, t \in GapTodays, mf \in 0..MaxMonths}

RepricingGap ==
    /\ pc = "called"
    /\ call.fn = "repricing_gap"
    /\ ret' = repricing_gap(call.portfolio, call.id, call.today, call.months_forward)
    /\ pc' = "returned"
    /\ UNCHANGED call

RepricingGapTable ==
    /\ pc = "called"
    /\ call.fn = "repricing_gap_table"
    /\ ret' = repricing_gap_table(call.portfolio, call.today, call.months_forward)
    /\ pc' = "returned"
    /\ UNCHANGED call

InitGap == call \in GapCalls /\ ret = NoRet /\ pc = "called"
NextGap == RepricingGap \/ RepricingGapTable
SpecGap == InitGap /\ [][NextGap]_vars

-----------------------------------------------------------------------------
(* Claims about the repricing gap (checked under SpecGap) *)

\* C2: repricingGap returns the buckets 1..monthsForward for every
\* instrument, and a fixed-rate instrument has 0 in each of them.
C2_GapHasAllBuckets ==
    (Returned("repricing_gap") /\ call.months_forward >= 1) =>
        /\ ret.ok
        /\ ret.val.index = [k \in 1..call.months_forward |-> k]
        /\ call.portfolio[call.id].ir_binding = "FIX"
              => ret.val.volume = [k \in 1..call.months_forward |-> 0]

\* C3: repricingGapTable succeeds for every non-empty portfolio and returns
\* the columns "1M".."<monthsForward>M", column kM being the sum of the
\* instruments' repricingGap values for bucket k.
C3_GapTableSucceeds ==
    (Returned("repricing_gap_table") /\ call.portfolio # <<>>
     /\ call.months_forward >= 1) =>
        /\ ret.ok
        /\ ret.val.columns = [k \in 1..call.months_forward |-> ToString(k) \o "M"]
        /\ \A k \in 1..call.months_forward :
              ret.val.volume[k]
                = SumSeq([i \in DOMAIN call.portfolio |->
                            GapAt(repricing_gap(call.portfolio, i, call.today,
                                                call.months_forward).val, k)])

-----------------------------------------------------------------------------
(* cashflow.py / liquidity.py: liquidity_table (the two files hold the     *)
(* same code)                                                              *)

periods_days == <<0, 30, 90, 180, 360, 720, 1800, 3600, 7200>>
periods_names == <<"1M", "2-3M", "3-6M", "6-12M", "1-2Y", "2-5Y", "5-10Y", ">10Y">>

\* pd.cut(days, bins=periods_days, labels=periods_names, right=True): the
\* bucket (bins[k], bins[k+1]] that holds days; NaN outside every bucket
cut(days) ==
    IF \E k \in DOMAIN periods_names :
          periods_days[k] < days /\ days <= periods_days[k + 1]
    THEN periods_names[CHOOSE k \in DOMAIN periods_names :
                          periods_days[k] < days /\ days <= periods_days[k + 1]]
    ELSE "NaN"

\* The sum of 'cashflow' over the rows of a table chosen by positions
SumCashflow(table, positions) ==
    LET RECURSIVE Go(_)
        Go(n) == IF n = 0 THEN Zero
                 ELSE VAdd(IF n \in positions THEN table[n].cashflow ELSE Zero,
                           Go(n - 1))
    IN Go(Len(table))

\* cashflow_table[cashflow_table['date'] >= today], as row positions
OnOrAfterToday(table, today) == {n \in DOMAIN table : DtLeq(today, table[n].date)}

liquidity_table(cashflow_table, today) ==
    LET kept == OnOrAfterToday(cashflow_table, today)
        \* groupby(['date','account']).sum()['cashflow']
        groups == {<<cashflow_table[n].date, cashflow_table[n].account>> : n \in kept}
        GroupSum(g) ==
            SumCashflow(cashflow_table,
                        {n \in kept : <<cashflow_table[n].date,
                                        cashflow_table[n].account>> = g})
        days(g) == DaysBetween(g[1], today)
        accounts == {g[2] : g \in groups}
        \* groupby(['period','account']).sum(): a group whose period is NaN
        \* is dropped; pivot to account x period
        Cell(a, p) ==
            LET gs == {g \in groups : g[2] = a /\ cut(days(g)) = p}
                RECURSIVE Total(_)
                Total(S) == IF S = {} THEN Zero
                            ELSE LET g == CHOOSE x \in S : TRUE
                                 IN VAdd(GroupSum(g), Total(S \ {g}))
            IN Total(gs)
    IN Return([a \in accounts |->
                 [p \in Range(periods_names) |-> Cell(a, p)]])

-----------------------------------------------------------------------------
(* The calls drawn for liquidity_table *)

MaxRows == 2           \* rows of the cash-flow table

DayOffsets == {-1, 0, 1, 30, 31, 360, 7200, 7201}
Accounts == {"A", "B"}

CashflowRow(id, account, date, cashflow, interest, capital, remaining) ==
    [id |-> id, account |-> account, date |-> date, cashflow |-> cashflow,
     interest |-> interest, capital |-> capital, remaining |-> remaining]

LiquidityRows ==
    {CashflowRow(QI(1), a, FromOrdinal(ToOrdinal(Today) + k), QI(c), Zero, QI(c), Zero) :
        a \in Accounts, k \in DayOffsets, c \in {100, -40}}

LiquidityCalls ==
    {[fn |-> "liquidity_table", cashflow_table |-> t, today |-> Today] :
        t \in UNION {SeqsOfLen(LiquidityRows, n) : n \in 0..MaxRows}}

LiquidityTable ==
    /\ pc = "called"
    /\ call.fn = "liquidity_table"
    /\ ret' = liquidity_table(call.cashflow_table, call.today)
    /\ pc' = "returned"
    /\ UNCHANGED call

InitLiquidity == call \in LiquidityCalls /\ ret = NoRet /\ pc = "called"
NextLiquidity == LiquidityTable
SpecLiquidity == InitLiquidity /\ [][NextLiquidity]_vars

-----------------------------------------------------------------------------
(* Claims about liquidity_table (checked under SpecLiquidity) *)

\* The sum of all cells of an account x bucket table
TableTotal(table) ==
    LET cells == {<<a, p>> : a \in DOMAIN table, p \in Range(periods_names)}
        RECURSIVE Total(_)
        Total(S) == IF S = {} THEN Zero
                    ELSE LET c == CHOOSE x \in S : TRUE
                         IN VAdd(table[c[1]][c[2]], Total(S \ {c}))
    IN Total(cells)

\* C1: the cells of the liquidity table sum to the cash flow of all rows
\* dated on or after today: no cash flow is lost or counted twice.
C1_LiquidityConservesCashflow ==
    Returned("liquidity_table") =>
        /\ ret.ok
        /\ TableTotal(ret.val)
             = SumCashflow(call.cashflow_table,
                           OnOrAfterToday(call.cashflow_table, call.today))

-----------------------------------------------------------------------------
(* yieldcurve.py: YieldCurve *)

\* The fitted curve is the result of calibrate_nss_ols, an external
\* calibration: the model draws it.  A curve maps a time to maturity in
\* years to a yield in basis points.
Curves == {"zero", "flat", "rising"}

CurveRate(curve, tau) ==
    CASE curve = "zero" -> Zero
      [] curve = "steep" -> QI(5000)    \* 50% at every maturity
      [] curve = "flat" -> <<"level">>  \* one calibrated yield at every maturity
      [] OTHER -> <<"spot", tau>>     \* a calibrated curve, left uninterpreted

\* utils.time_difference_years, which yieldcurve.py calls and utils.py does
\* not define: Actual/365.25 years from today to the date
time_difference_years(date, today) == Q(4 * DaysBetween(date, today), 1461)

\* np.power(1 + rate/10000, maturity): a real power, computed for a rate
\* that is a number and a whole number of years, kept as a term otherwise
Factor(rate, tau) ==
    IF rate = Zero \/ tau = Zero THEN One
    ELSE IF IsQ(rate) /\ IsQ(tau) /\ tau[3] = 1 /\ tau[2] >= 1
      THEN LET base == VAdd(One, VDiv(rate, QI(10000)))
           IN Q(IntPow(base[2], tau[2]), IntPow(base[3], tau[2]))
    ELSE <<"factor", rate, tau>>

\* (interest / interest_shifted - 1) * 10000
ForwardRate(interest, interest_shifted) ==
    IF interest = interest_shifted THEN Zero
    ELSE IF IsQ(interest) /\ IsQ(interest_shifted)
      THEN VMul(VSub(VDiv(interest, interest_shifted), One), QI(10000))
    \* ((1 + rate/10000)**1 / 1 - 1) * 10000
    ELSE IF interest_shifted = One /\ interest[1] = "factor" /\ interest[3] = One
      THEN interest[2]
    ELSE <<"forward", interest, interest_shifted>>

\* get_spot_yields(dates)['rate']
get_spot_yields(curve, today, dates) ==
    [k \in DOMAIN dates |-> CurveRate(curve, time_difference_years(dates[k], today))]

\* Lines 76-79: the forward rates from the spot rates and the years to
\* each date
forward_from_interests(interests) ==
    \* np.concatenate(([1], np.roll(interests, shift=1)[1:]))
    [k \in DOMAIN interests |->
       ForwardRate(interests[k], IF k = 1 THEN One ELSE interests[k - 1])]

\* get_forward_yields(dates)['rate']
get_forward_yields(curve, today, dates) ==
    Only({forward_from_interests(interests) :
            interests \in {[k \in DOMAIN dates |->
                              Factor(CurveRate(curve, time_difference_years(dates[k], today)),
                                     time_difference_years(dates[k], today))]}})

NaT == <<>>

\* The position of x in a sequence without repetitions, 0 if absent
IndexOf(seq, x) ==
    IF x \in Range(seq) THEN CHOOSE p \in DOMAIN seq : seq[p] = x ELSE 0

\* The elements of a set of datetimes in ascending order
SortDates(S) ==
    [i \in 1..Cardinality(S) |->
       CHOOSE d \in S : Cardinality({x \in S : DtLess(x, d)}) = i - 1]

\* pd.merge(repayment_dates_df, forward_yields_og, on='date', how='outer'):
\* the dates of the merged rows, row k carrying the label k-1.  Which order
\* the rows come in depends on the pandas build: the keys of the left frame
\* followed by the keys only the right frame has ("legacy", pandas before
\* 2.2), or all keys sorted ("sorted", the documented order).
merge_outer(repayment_dates, repricing_dates, pandas) ==
    IF pandas = "sorted"
    THEN SortDates(Range(repayment_dates) \cup Range(repricing_dates))
    ELSE LET NotLeft(d) == d \notin Range(repayment_dates)
         IN repayment_dates \o SelectSeq(repricing_dates, NotLeft)

\* Mutant of ffill: the missing rates are left missing
ffill_none(rates) == rates

\* fillna(method='ffill') on a column: a missing rate takes the last rate
\* before it, a leading missing rate stays missing
RECURSIVE ffill_from(_, _, _)
ffill_from(rates, i, prev) ==
    IF i > Len(rates) THEN <<>>
    ELSE Only({<<v>> \o ffill_from(rates, i + 1, v) :
                 v \in {IF IsNaN(rates[i]) THEN prev ELSE rates[i]}})

ffill(rates) == ffill_from(rates, 1, NaN)

\* Lines 105-109 on the merged frame: the rows [label, date, rate] that
\* get_floating_yields returns, in the order of the frame
floating_rows(repayment_dates, repricing_dates, forward_yields_og, spot_yields, merged, sorted) ==
    LET \* the rate column after the merge and after .at[0,'rate'] = spot
        Rate0(k) ==
            IF k = 1 THEN spot_yields[1]
            ELSE IF merged[k] \in Range(repricing_dates)
              THEN forward_yields_og[IndexOf(repricing_dates, merged[k])]
            ELSE NaN
        RateAt(d) == Rate0(IndexOf(merged, d))
        \* fillna(method='ffill') along the rows sorted by date
        filled == ffill([i \in DOMAIN sorted |-> RateAt(sorted[i])])
        InRepayment(i) == sorted[i] \in Range(repayment_dates)
        kept == SelectSeq([i \in DOMAIN sorted |-> i], InRepayment)
    IN [j \in DOMAIN kept |->
          [label |-> IndexOf(merged, sorted[kept[j]]) - 1, date |-> sorted[kept[j]],
           rate |-> filled[kept[j]]]]

\* sort_values(by='date') of the merged frame
floating_sorted(repayment_dates, repricing_dates, forward_yields_og, spot_yields, merged) ==
    Only({floating_rows(repayment_dates, repricing_dates, forward_yields_og,
                        spot_yields, merged, sorted) :
            sorted \in {SortDates(Range(merged))}})

get_floating_yields(curve, today, repayment_dates, repricing_dates, pandas) ==
    IF repricing_dates = <<>> THEN Raise("ValueError")
    ELSE Return(Only({floating_sorted(repayment_dates, repricing_dates,
                                      forward_yields_og, spot_yields, merged) :
                        forward_yields_og \in {get_forward_yields(curve, today, repricing_dates)},
                        spot_yields \in {get_spot_yields(curve, today, repricing_dates)},
                        merged \in {merge_outer(repayment_dates, repricing_dates, pandas)}}))

\* YieldCurve.__init__: the object's fields
YieldCurve(curve_type, today) ==
    [curve_type |-> curve_type, _curve |-> None, _status |-> None, _today |-> today]

\* YieldCurve.fit: the object after the call, or the exception of the
\* calibration.  market = [fit, curve] is what calibrate_nss_ols does on the
\* quotes of this curve type: it raises, or it returns a curve and a status
\* ("ok" for a converged optimisation, "not converged" otherwise).
fit(self, market) ==
    IF market.fit = "raises" THEN Raise("FitError")
    ELSE Return([self EXCEPT !._curve = Some(market.curve),
                             !._status = Some(market.fit)])

\* The three query methods on the object: self._curve(maturities) on an
\* object that was never fitted calls None
spot_yields_of(self, dates) ==
    IF IsNone(self._curve) THEN Raise("TypeError")
    ELSE Return(get_spot_yields(The(self._curve), self._today, dates))

forward_yields_of(self, dates) ==
    IF IsNone(self._curve) THEN Raise("TypeError")
    ELSE Return(get_forward_yields(The(self._curve), self._today, dates))

floating_yields_of(self, repayment_dates, repricing_dates, pandas) ==
    IF IsNone(self._curve) THEN Raise("TypeError")
    ELSE get_floating_yields(The(self._curve), self._today, repayment_dates,
                             repricing_dates, pandas)

-----------------------------------------------------------------------------
(* cashflow.py: asset_cashflow and portfolio_cashflow *)

\* seq[::-1]
Reverse(seq) == [i \in DOMAIN seq |-> seq[Len(seq) + 1 - i]]

\* Variant of the payment-date filter that keeps a date equal to today
payment_dates_from_today(inst, today) ==
    LET FromToday(d) == DtLeq(today, d)
        payment_periods == SelectSeq(month_grid(inst.maturity, today), FromToday)
    IN Reverse(Slice(payment_periods, inst.payment_freq))

\* Lines 51-58: the payment dates
payment_dates_of(inst, today) ==
    LET AfterToday(d) == DtLess(today, d)
        payment_periods == SelectSeq(month_grid(inst.maturity, today), AfterToday)
    IN Reverse(Slice(payment_periods, inst.payment_freq))

\* Lines 66-72: the repricing dates that asset_cashflow keeps
reprice_dates_of(inst, today) ==
    LET AfterToday(d) == DtLess(today, d)
    IN SelectSeq(reprice_grid(inst), AfterToday)

\* Mutant of period_rate: the payment frequency is left out of the period
\* fraction (a monthly rate whatever the frequency)
period_rate_monthly(rate, payment_freq) == VMul(VDiv(rate, QI(10000)), Q(1, 12))

\* (rate / 10000) * (payment_freq / 12)
period_rate(rate, payment_freq) == VMul(VDiv(rate, QI(10000)), Q(payment_freq, 12))

\* Lines 60-86: the rate handed to amortization_schedule, or the exception
\* raised on the way.  market = [fit, curve]: whether the calibration
\* succeeds for the instrument's curve, and the curve it yields.
floating_rate(inst, fy) ==
    IF ~fy.ok THEN fy
    ELSE Return([kind |-> "series", dtype |-> "float",
                 index |-> [k \in DOMAIN fy.val |-> fy.val[k].label],
                 vals |-> [k \in DOMAIN fy.val |->
                             period_rate(VAdd(fy.val[k].rate, QI(inst.spread)),
                                         inst.payment_freq)]])

monthly_rate_on(inst, market, today, pandas, payment_dates, reprice_dates) ==
    IF inst.ir_binding # "FIX" /\ Len(reprice_dates) > 0
    THEN IF market.fit = "raises" THEN Raise("FitError")
         ELSE Only({floating_rate(inst, fy) :
                      fy \in {get_floating_yields(market.curve, today, payment_dates,
                                                  reprice_dates, pandas)}})
    ELSE Return(Scalar("float", period_rate(QI(inst.spread), inst.payment_freq)))

monthly_rate_of(inst, market, today, pandas) ==
    Only({monthly_rate_on(inst, market, today, pandas, payment_dates, reprice_dates) :
            payment_dates \in {payment_dates_of(inst, today)},
            reprice_dates \in {reprice_dates_of(inst, today)}})

\* pd.concat([pd.DataFrame(info), cashflows], axis=1): the rows are aligned
\* on their labels; a label one frame lacks leaves that frame's columns
\* missing in the row.
concat_info(id, account, payment_dates, cashflows) ==
    LET T == Len(payment_dates)
        labels == (0..(T - 1)) \cup Range(cashflows.index)
        order == [i \in 1..Cardinality(labels) |->
                    CHOOSE l \in labels : Cardinality({x \in labels : x < l}) = i - 1]
        Cell(column, l) ==
            IF l \in Range(cashflows.index)
            THEN column[IndexOf(cashflows.index, l)] ELSE NaN
    IN [i \in DOMAIN order |->
          LET l == order[i]
              has == l \in 0..(T - 1)
          IN CashflowRow(IF has THEN QI(id) ELSE NaN,
                         IF has THEN account ELSE "NaN",
                         IF has THEN payment_dates[l + 1] ELSE NaT,
                         Cell(cashflows.cashflow, l), Cell(cashflows.interest, l),
                         Cell(cashflows.capital, l), Cell(cashflows.remaining, l))]

\* Lines 87-100: the schedule for the period rate and the info columns
asset_table(id, inst, payment_dates, rate) ==
    IF ~rate.ok THEN rate
    ELSE Only({IF ~cashflows.ok THEN cashflows
               \* cashflows['date'].dt on an empty, untyped column
               ELSE IF payment_dates = <<>> THEN Raise("AttributeError")
               ELSE Return(concat_info(id, inst.account, payment_dates, cashflows.val)) :
                 cashflows \in {amortization_schedule(rate.val, Len(payment_dates),
                                                      inst.volume, inst.repayment)}})

asset_cashflow(portfolio, market, id, today, pandas) ==
    Only({asset_table(id, portfolio[id], payment_dates, rate) :
            payment_dates \in {payment_dates_of(portfolio[id], today)},
            rate \in {monthly_rate_of(portfolio[id], market, today, pandas)}})

\* portfolio_cashflow: the instruments' tables one after the other; the
\* first instrument that raises ends the call
RECURSIVE portfolio_rows(_, _, _, _, _)
portfolio_rows(portfolio, market, today, pandas, idx) ==
    IF idx > Len(portfolio) THEN Return(<<>>)
    ELSE
      LET cashflow == asset_cashflow(portfolio, market, idx, today, pandas)
      IN IF ~cashflow.ok THEN cashflow
         ELSE
           LET rest == portfolio_rows(portfolio, market, today, pandas, idx + 1)
           IN IF ~rest.ok THEN rest ELSE Return(cashflow.val \o rest.val)

portfolio_cashflow(portfolio, market, today, pandas) ==
    portfolio_rows(portfolio, market, today, pandas, 1)

-----------------------------------------------------------------------------
(* The calls drawn for asset_cashflow and portfolio_cashflow *)

\* <<issue, maturity>>: grids that meet the payment grid, grids that miss
\* it, a 12-month loan, loans matured on or before today
IssueMaturity ==
    {<<<<2014, 6, 15, 0>>, <<2014, 12, 15, 0>>>>,
     <<<<2014, 6, 30, 0>>, <<2014, 12, 31, 0>>>>,
     <<<<2014, 6, 30, 0>>, <<2015, 9, 30, 0>>>>,
     <<<<2014, 6, 30, 0>>, <<2014, 10, 15, 0>>>>,
     <<<<2014, 6, 30, 0>>, <<2014, 9, 30, 0>>>>,
     <<<<2014, 6, 15, 0>>, <<2014, 9, 15, 0>>>>}

Repayments == {"BULLET", "LINEAR", "ANNUITY"}

\* An ANNUITY instrument is drawn with spread 0, the others with 200 bp
SpreadOf(repayment) == IF repayment = "ANNUITY" THEN 0 ELSE 200

\* The floating-rate ANNUITY instruments drawn have at most MaxFloatingAnnuity
\* payment dates (the terms of their schedules grow with every period)
MaxFloatingAnnuity == 4

AllInstruments ==
    {Instrument("A", 1000000, b[1], b[2], SpreadOf(r), im[1], im[2], r, pf) :
        b \in {<<"FIX", 1>>, <<"LIBOR", 1>>, <<"LIBOR", 3>>},
        im \in IssueMaturity, r \in Repayments, pf \in {1, 3}}

CashflowInstruments ==
    {x \in AllInstruments :
        (x.repayment = "ANNUITY" /\ x.ir_binding # "FIX")
            => Len(payment_dates_of(x, Today)) <= MaxFloatingAnnuity}

Markets == {[fit |-> "ok", curve |-> c] : c \in Curves}
             \cup {[fit |-> "raises", curve |-> "zero"],
                   [fit |-> "not converged", curve |-> "rising"]}
PandasBuilds == {"legacy", "sorted"}

\* Portfolios of two instruments, the second on another account
SmallPortfolios ==
    {<<x, [y EXCEPT !.account = "B"]>> :
        x \in {i \in CashflowInstruments :
                 i.payment_freq = 1 /\ i.repayment = "BULLET" /\ i.reprice_freq = 1},
        y \in {i \in CashflowInstruments :
                 i.payment_freq = 3 /\ i.ir_binding = "FIX" /\ i.repayment # "BULLET"}}

CashflowCalls ==
    {[fn |-> "asset_cashflow", portfolio |-> <<x>>, market |-> m, id |-> 1,
      today |-> Today, pandas |-> b] :
        x \in CashflowInstruments, m \in Markets, b \in PandasBuilds}
    \cup
    {[fn |-> "portfolio_cashflow", portfolio |-> p, market |-> m, today |-> Today,
      pandas |-> b] :
        p \in SmallPortfolios, m \in Markets, b \in PandasBuilds}

AssetCashflow ==
    /\ pc = "called"
    /\ call.fn = "asset_cashflow"
    /\ ret' = asset_cashflow(call.portfolio, call.market, call.id, call.today,
                             call.pandas)
    /\ pc' = "returned"
    /\ UNCHANGED call

PortfolioCashflow ==
    /\ pc = "called"
    /\ call.fn = "portfolio_cashflow"
    /\ ret' = portfolio_cashflow(call.portfolio, call.market, call.today, call.pandas)
    /\ pc' = "returned"
    /\ UNCHANGED call

InitCashflow == call \in CashflowCalls /\ ret = NoRet /\ pc = "called"
NextCashflow == AssetCashflow \/ PortfolioCashflow
SpecCashflow == InitCashflow /\ [][NextCashflow]_vars

-----------------------------------------------------------------------------
(* Claims about asset_cashflow (checked under SpecCashflow) *)

CallInstrument == call.portfolio[call.id]

\* asset_cashflow has returned for an instrument that matures after today,
\* the curve calibration (where one is needed) having succeeded
LiveAssetCall ==
    /\ Returned("asset_cashflow")
    /\ DtLess(call.today, CallInstrument.maturity)
    /\ call.market.fit = "ok"

\* C9: forInstrument returns one row per payment date, the dates strictly
\* increasing, all after today, the last one the maturity date, and every
\* row carries the instrument's id and account.
C9_OneRowPerPaymentDate ==
    LiveAssetCall =>
        /\ ret.ok
        /\ Len(ret.val) = Len(payment_dates_of(CallInstrument, call.today))
        /\ \A i \in DOMAIN ret.val :
              /\ ret.val[i].date # NaT
              /\ DtLess(call.today, ret.val[i].date)
              /\ ret.val[i].id = QI(call.id)
              /\ ret.val[i].account = CallInstrument.account
        /\ \A i \in 1..(Len(ret.val) - 1) :
              ret.val[i].date # NaT /\ ret.val[i + 1].date # NaT
              /\ DtLess(ret.val[i].date, ret.val[i + 1].date)
        /\ ret.val[Len(ret.val)].date = CallInstrument.maturity

FixedBulletCall ==
    /\ LiveAssetCall
    /\ CallInstrument.ir_binding = "FIX"
    /\ CallInstrument.repayment = "BULLET"

\* C10: a fixed-rate BULLET instrument of volume V pays interest
\* V x spread/10000 x payment_freq/12 on every row, capital 0 on every row
\* but the last and V on the last.
C10_FixedBulletRows ==
    FixedBulletCall =>
        LET V == QI(CallInstrument.volume)
            rate == Q(CallInstrument.spread * CallInstrument.payment_freq, 10000 * 12)
        IN /\ ret.ok
           /\ Len(ret.val) >= 1
           /\ \A i \in DOMAIN ret.val :
                 /\ ret.val[i].interest = VMul(V, rate)
                 /\ ret.val[i].capital = (IF i = Len(ret.val) THEN V ELSE Zero)

\* The spec's scenario: volume 1,000,000, 200 bp, monthly payments, 12 months
\* to maturity: 12 rows of interest 1,000,000 x 0.02/12 = 5000/3
W_C10_FixedBulletRows ==
    /\ FixedBulletCall /\ ret.ok
    /\ CallInstrument.volume = 1000000 /\ CallInstrument.spread = 200
    /\ CallInstrument.payment_freq = 1
    /\ CallInstrument.maturity = AddMonths(call.today, 12)
    /\ Len(ret.val) = 12
    /\ ret.val[1].interest = Q(5000, 3)
    /\ ret.val[12].capital = QI(1000000)

-----------------------------------------------------------------------------
(* The calls drawn for YieldCurve: an object is fitted, then queried *)

MaxDates == 2          \* longest list of dates handed to a query

\* The last date is 1461 days (4 years of 365.25 days) after today
YieldDates ==
    {<<2014, 10, 30, 0>>, <<2014, 11, 30, 0>>, <<2014, 12, 30, 0>>,
     <<2015, 1, 30, 0>>, <<2018, 9, 30, 0>>}

\* The lists of at most MaxDates dates, in ascending order
DateLists ==
    {SortDates(S) : S \in {T \in SUBSET YieldDates : Cardinality(T) <= MaxDates}}

YieldMarkets ==
    {[fit |-> f, curve |-> c] :
        f \in {"ok", "not converged"}, c \in Curves \cup {"steep"}}
    \cup {[fit |-> "raises", curve |-> "zero"]}

FitCalls ==
    {[fn |-> "fit", self |-> YieldCurve("EUR01", Today), market |-> m] :
        m \in YieldMarkets}

QueryCalls(self) ==
    {[fn |-> f, self |-> self, dates |-> d] :
        f \in {"get_spot_yields", "get_forward_yields"}, d \in DateLists \ {<<>>}}
    \cup
    {[fn |-> "get_floating_yields", self |-> self, repayment_dates |-> p,
      repricing_dates |-> r, pandas |-> b] :
        p \in DateLists \ {<<>>}, r \in DateLists, b \in PandasBuilds}

Fit ==
    /\ pc = "called"
    /\ call.fn = "fit"
    /\ ret' = fit(call.self, call.market)
    /\ pc' = "returned"
    /\ UNCHANGED call

\* The caller goes on with the object that fit left behind
Query ==
    /\ pc = "returned"
    /\ call.fn = "fit"
    /\ ret.ok
    /\ call' \in QueryCalls(ret.val)
    /\ ret' = NoRet
    /\ pc' = "called"

GetSpotYields ==
    /\ pc = "called"
    /\ call.fn = "get_spot_yields"
    /\ ret' = spot_yields_of(call.self, call.dates)
    /\ pc' = "returned"
    /\ UNCHANGED call

GetForwardYields ==
    /\ pc = "called"
    /\ call.fn = "get_forward_yields"
    /\ ret' = forward_yields_of(call.self, call.dates)
    /\ pc' = "returned"
    /\ UNCHANGED call

GetFloatingYields ==
    /\ pc = "called"
    /\ call.fn = "get_floating_yields"
    /\ ret' = floating_yields_of(call.self, call.repayment_dates,
                                 call.repricing_dates, call.pandas)
    /\ pc' = "returned"
    /\ UNCHANGED call

InitYield == call \in FitCalls /\ ret = NoRet /\ pc = "called"
NextYield == Fit \/ Query \/ GetSpotYields \/ GetForwardYields \/ GetFloatingYields
SpecYield == InitYield /\ [][NextYield]_vars

-----------------------------------------------------------------------------
(* Claims about YieldCurve (checked under SpecYield) *)

\* C11: get_forward_yields on a single date returns that date's spot yield,
\* the value get_spot_yields returns for it.
C11_SingleForwardIsSpot ==
    (Returned("get_forward_yields") /\ Len(call.dates) = 1) =>
        /\ ret.ok
        /\ ret.val = spot_yields_of(call.self, call.dates).val

\* get_floating_yields has returned for one repricing date that is at or
\* before the first repayment date
SingleRepricingCall ==
    /\ Returned("get_floating_yields")
    /\ Len(call.repricing_dates) = 1
    /\ DtLeq(call.repricing_dates[1], call.repayment_dates[1])

\* C12: with one repricing date at or before the first repayment date the
\* result has one row per repayment date and every row carries the one rate
\* observed at the repricing date (its spot yield).
C12_SingleRepricingFillsAll ==
    SingleRepricingCall =>
        /\ ret.ok
        /\ Len(ret.val) = Len(call.repayment_dates)
        /\ \A i \in DOMAIN ret.val :
              /\ ret.val[i].date = call.repayment_dates[i]
              /\ ret.val[i].rate
                   = spot_yields_of(call.self, call.repricing_dates).val[1]

\* Two repayment dates after the repricing date, on the 5000 bp curve
W_C12_SingleRepricingFillsAll ==
    /\ SingleRepricingCall /\ ret.ok
    /\ The(call.self._curve) = "steep"
    /\ Len(call.repayment_dates) = 2
    /\ DtLess(call.repricing_dates[1], call.repayment_dates[1])
    /\ ret.val[1].rate = QI(5000) /\ ret.val[2].rate = QI(5000)

-----------------------------------------------------------------------------
(* Further claims about date_range (checked under SpecDates) *)

\* length or step is supplied and is 0 or negative
NonPositiveCall ==
    /\ Returned("date_range")
    /\ \/ ~IsNone(call.length) /\ The(call.length) <= 0
       \/ ~IsNone(call.step) /\ The(call.step) <= 0

\* The exceptions date_range raises for arguments it rejects
InvalidArgument == {"ValueError", "TypeError"}

\* C13: whenever length or step is supplied as an integer that is not
\* positive, date_range fails with an invalid-argument error: it returns no
\* dates and does not loop for ever.
C13_NonPositiveRejected ==
    NonPositiveCall => (~ret.ok /\ ret.err \in InvalidArgument)

\* The same date argument supplied as a datetime
AsDatetime(arg) == IF IsNone(arg) THEN None ELSE DateArg("datetime", The(arg).dt)

\* C14: the result of date_range does not depend on the representation of
\* start and end: strings, datetimes and Timestamps of the same calendar
\* dates give the same outcome.
C14_RepresentationIndependent ==
    Returned("date_range") =>
        ret = date_range(AsDatetime(call.start), AsDatetime(call.end),
                         call.length, call.step)

StrictlyIncreasing(dates) ==
    \A i \in 1..(Len(dates) - 1) : DtLess(dates[i], dates[i + 1])

StrictlyDecreasing(dates) ==
    \A i \in 1..(Len(dates) - 1) : DtLess(dates[i + 1], dates[i])

\* date_range has returned from a step-based call with step >= 1 and, where
\* a length is given, length >= 1
StepCall ==
    /\ Returned("date_range")
    /\ ~IsNone(call.step) /\ The(call.step) >= 1
    /\ IsNone(call.length) \/ The(call.length) >= 1

\* generate(start, end, step): from start towards end, inside the closed
\* interval between the two days, up to the last grid date not past end
StartEndStepOk(start, end, step, dates) ==
    /\ Len(dates) >= 1
    /\ dates[1] = start
    /\ IF DtLeq(start, end)
       THEN /\ (start # end => StrictlyIncreasing(dates))
            /\ \A i \in DOMAIN dates : DtLeq(start, dates[i]) /\ DtLeq(dates[i], end)
            /\ IF start = end THEN Len(dates) = 1
               ELSE DtLess(end, AddMonths(dates[Len(dates)], step))
       ELSE /\ StrictlyDecreasing(dates)
            /\ \A i \in DOMAIN dates : DtLeq(end, dates[i]) /\ DtLeq(dates[i], start)
            /\ DtLess(AddMonths(dates[Len(dates)], -step), end)

\* C15: for step >= 1 and length >= 1, generate(start, length, step) returns
\* length strictly increasing dates from start, generate(end, length, step)
\* length strictly decreasing dates from end, and generate(start, end, step)
\* the grid from start towards end, inside the interval, up to the last grid
\* date not past end.
C15_StepForms ==
    StepCall =>
        LET hasS == ~IsNone(call.start)
            hasE == ~IsNone(call.end)
            hasL == ~IsNone(call.length)
        IN /\ (hasS /\ ~hasE /\ hasL) =>
                 /\ ret.ok
                 /\ Len(ret.val) = The(call.length)
                 /\ ret.val[1] = Truncate(The(call.start).dt)
                 /\ StrictlyIncreasing(ret.val)
           /\ (~hasS /\ hasE /\ hasL) =>
                 /\ ret.ok
                 /\ Len(ret.val) = The(call.length)
                 /\ ret.val[1] = Truncate(The(call.end).dt)
                 /\ StrictlyDecreasing(ret.val)
           /\ (hasS /\ hasE /\ ~hasL) =>
                 /\ ret.ok
                 /\ StartEndStepOk(Truncate(The(call.start).dt),
                                   Truncate(The(call.end).dt), The(call.step), ret.val)

-----------------------------------------------------------------------------
(* Claims about a calibration that fails (SpecYield, SpecCashflow) *)

Queries == {"get_spot_yields", "get_forward_yields", "get_floating_yields"}

\* C16: fit fails when the calibration does not converge, and no query
\* returns rates computed from a curve whose calibration did not converge.
C16_NonConvergedFitFails ==
    /\ (Returned("fit") /\ call.market.fit # "ok") => ~ret.ok
    /\ (pc = "returned" /\ call.fn \in Queries
          /\ call.self._status = Some("not converged")) => ~ret.ok

\* Cash-flow generation fails for the instrument idx of the portfolio: the
\* code raises for it, or its rate comes from a calibration that raised or
\* did not converge
UsesCurve(inst, today) ==
    inst.ir_binding # "FIX" /\ Len(reprice_dates_of(inst, today)) > 0

FailsFor(portfolio, market, idx, today, pandas) ==
    \/ ~asset_cashflow(portfolio, market, idx, today, pandas).ok
    \/ UsesCurve(portfolio[idx], today) /\ market.fit # "ok"

\* C17: when cash-flow generation fails for an instrument of the portfolio,
\* portfolio_cashflow returns no table and the failure it surfaces names the
\* instrument id and the curve identifier.
C17_FailureNamesInstrument ==
    (Returned("portfolio_cashflow")
       /\ \E idx \in DOMAIN call.portfolio :
             FailsFor(call.portfolio, call.market, idx, call.today, call.pandas)) =>
        /\ ~ret.ok
        /\ {"id", "yieldcurve"} \subseteq DOMAIN ret
        /\ \E idx \in DOMAIN call.portfolio :
              /\ FailsFor(call.portfolio, call.market, idx, call.today, call.pandas)
              /\ ret.id = idx
              /\ ret.yieldcurve = call.portfolio[idx].yieldcurve

-----------------------------------------------------------------------------
(* cashflow.py: nii_table *)

\* The sum of 'interest' over the rows of a table chosen by positions
SumInterest(table, positions) ==
    LET RECURSIVE Go(_)
        Go(n) == IF n = 0 THEN Zero
                 ELSE VAdd(IF n \in positions THEN table[n].interest ELSE Zero,
                           Go(n - 1))
    IN Go(Len(table))

\* pivot_table(index='date', columns='account', values='interest',
\* aggfunc='sum'): the cell of a date and an account, NaN where the account
\* has no row on the date
pivot_interest(table, date, account) ==
    LET rows == {n \in DOMAIN table : table[n].date = date /\ table[n].account = account}
    IN IF rows = {} THEN NaN ELSE SumInterest(table, rows)

\* A column summed over the kept dates of one year, NaN skipped
RECURSIVE year_sum(_, _, _)
year_sum(table, account, dates) ==
    IF dates = {} THEN Zero
    ELSE LET d == CHOOSE x \in dates : TRUE
             cell == pivot_interest(table, d, account)
         IN VAdd(IF IsNaN(cell) THEN Zero ELSE cell,
                 year_sum(table, account, dates \ {d}))

\* table[numeric_cols].sum(axis=1) summed over the dates of one year
RECURSIVE total_sum(_, _, _)
total_sum(table, accounts, dates) ==
    IF accounts = {} THEN Zero
    ELSE LET a == CHOOSE x \in accounts : TRUE
         IN VAdd(year_sum(table, a, dates), total_sum(table, accounts \ {a}, dates))

\* nii_table: label -> year -> value.  table.groupby('year').sum() also
\* meets the datetime column 'date': pandas 1.x leaves such a column out of
\* the sum, pandas 2.x raises TypeError (datetime64 does not support sum).
nii_table(cashflow_table, today, pandas) ==
    LET accounts == {cashflow_table[n].account : n \in DOMAIN cashflow_table}
        \* table[table['date'] >= today]
        kept == {cashflow_table[n].date : n \in OnOrAfterToday(cashflow_table, today)}
        years == {d[1] : d \in kept}
        InYear(y) == {d \in kept : d[1] = y}
    IN IF pandas = "2.x" THEN Raise("TypeError")
       ELSE Return([l \in accounts \cup {"total"} |->
                      [y \in years |->
                         IF l = "total" THEN total_sum(cashflow_table, accounts, InYear(y))
                         ELSE year_sum(cashflow_table, l, InYear(y))]])

-----------------------------------------------------------------------------
(* The calls drawn for nii_table *)

\* Days from today (2014-09-30): yesterday, today, 2014-12-31, 2015-01-01,
\* late 2015
NiiOffsets == {-1, 0, 92, 93, 400}

NiiRows ==
    {CashflowRow(QI(1), a, FromOrdinal(ToOrdinal(Today) + k), QI(100 + i), QI(i), QI(100), Zero) :
        a \in Accounts, k \in NiiOffsets, i \in {7, -3}}

GroupbySums == {"1.x", "2.x"}

NiiCalls ==
    {[fn |-> "nii_table", cashflow_table |-> t, today |-> Today, pandas |-> b] :
        t \in UNION {SeqsOfLen(NiiRows, n) : n \in 1..MaxRows}, b \in GroupbySums}

NiiTable ==
    /\ pc = "called"
    /\ call.fn = "nii_table"
    /\ ret' = nii_table(call.cashflow_table, call.today, call.pandas)
    /\ pc' = "returned"
    /\ UNCHANGED call

InitNii == call \in NiiCalls /\ ret = NoRet /\ pc = "called"
NextNii == NiiTable
SpecNii == InitNii /\ [][NextNii]_vars

-----------------------------------------------------------------------------
(* Claims about nii_table (checked under SpecNii) *)

\* The rows of an account dated in a year and on or after today
AccountYearRows(table, account, year, today) ==
    {n \in OnOrAfterToday(table, today) :
        table[n].account = account /\ table[n].date[1] = year}

\* The sum of a table's account rows for one year
RECURSIVE AccountsSum(_, _, _)
AccountsSum(nii, accounts, year) ==
    IF accounts = {} THEN Zero
    ELSE LET a == CHOOSE x \in accounts : TRUE
         IN VAdd(nii[a][year], AccountsSum(nii, accounts \ {a}, year))

\* C18: for every calendar year each account's value is the sum of
\* 'interest' over the account's rows dated in that year and on or after
\* today, and 'total' is the sum of the account values of the year.
C18_NiiSumsInterestByYear ==
    Returned("nii_table") =>
        /\ ret.ok
        /\ \A n \in OnOrAfterToday(call.cashflow_table, call.today) :
              /\ call.cashflow_table[n].account \in DOMAIN ret.val
              /\ call.cashflow_table[n].date[1]
                   \in DOMAIN ret.val[call.cashflow_table[n].account]
        /\ \A l \in DOMAIN ret.val : \A y \in DOMAIN ret.val[l] :
              IF l = "total"
              THEN ret.val[l][y] = AccountsSum(ret.val, DOMAIN ret.val \ {"total"}, y)
              ELSE ret.val[l][y]
                     = SumInterest(call.cashflow_table,
                                   AccountYearRows(call.cashflow_table, l, y, call.today))

-----------------------------------------------------------------------------
(* Further claims about get_floating_yields (checked under SpecYield) *)

\* The rate the claim gives to a repricing date: the spot yield for the
\* first one, its forward yield for the others
RepricingRate(self, repricing_dates, k) ==
    IF k = 1 THEN spot_yields_of(self, repricing_dates).val[1]
    ELSE forward_yields_of(self, repricing_dates).val[k]

\* The position of the latest repricing date on or before a date, 0 if none
LatestRepricing(repricing_dates, date) ==
    IF \E k \in DOMAIN repricing_dates : DtLeq(repricing_dates[k], date)
    THEN CHOOSE k \in DOMAIN repricing_dates :
            /\ DtLeq(repricing_dates[k], date)
            /\ \A j \in DOMAIN repricing_dates :
                  DtLeq(repricing_dates[j], date) => DtLeq(repricing_dates[j], repricing_dates[k])
    ELSE 0

\* C19: for non-empty repricing dates the result has one row per repayment
\* date in chronological order, and every repayment date on or after some
\* repricing date carries the rate of the latest repricing date on or before
\* it, the first repricing date's rate being its spot yield.
C19_LastObservationCarriedForward ==
    (Returned("get_floating_yields") /\ call.repricing_dates # <<>>) =>
        /\ ret.ok
        /\ Len(ret.val) = Len(call.repayment_dates)
        /\ \A i \in DOMAIN ret.val :
              /\ ret.val[i].date = call.repayment_dates[i]
              /\ LatestRepricing(call.repricing_dates, ret.val[i].date) # 0 =>
                   ret.val[i].rate
                     = RepricingRate(call.self, call.repricing_dates,
                                     LatestRepricing(call.repricing_dates,
                                                     ret.val[i].date))

-----------------------------------------------------------------------------
(* Further claims about asset_cashflow (checked under SpecCashflow) *)

\* The repricing dates the claim keeps: the grid dates on or after today
RepriceDatesFromToday(inst, today) ==
    LET FromToday(d) == DtLeq(today, d)
    IN SelectSeq(reprice_grid(inst), FromToday)

\* The same instrument with a fixed rate
AsFixed(portfolio, id) == [portfolio EXCEPT ![id].ir_binding = "FIX"]

\* C20: for a floating instrument maturing after today the repricing
\* dates kept are the grid dates on or after today (today included); the
\* curve is used if and only if there is such a date (seen when the
\* calibration raises), and otherwise the result is that of the fixed-rate
\* instrument.
C20_RepricingOnOrAfterToday ==
    (Returned("asset_cashflow") /\ CallInstrument.ir_binding # "FIX"
       /\ DtLess(call.today, CallInstrument.maturity)) =>
        /\ reprice_dates_of(CallInstrument, call.today)
             = RepriceDatesFromToday(CallInstrument, call.today)
        /\ call.market.fit = "raises" =>
             ((ret = Raise("FitError"))
                <=> RepriceDatesFromToday(CallInstrument, call.today) # <<>>)
        /\ RepriceDatesFromToday(CallInstrument, call.today) = <<>> =>
             ret = asset_cashflow(AsFixed(call.portfolio, call.id), call.market,
                                  call.id, call.today, call.pandas)

-----------------------------------------------------------------------------
(* Further claims about repricing_gap (checked under SpecGap) *)

\* The repricing dates of the grid that are on or after today and whose
\* elapsed days lie in bucket k's window, (k-1) x 30 up to but not k x 30
EventsInBucket(inst, today, k) ==
    {p \in DOMAIN reprice_grid(inst) :
        /\ DtLeq(today, reprice_grid(inst)[p])
        /\ (k - 1) * 30 <= DaysBetween(reprice_grid(inst)[p], today)
        /\ DaysBetween(reprice_grid(inst)[p], today) < k * 30}

\* C21: for a floating instrument bucket k (1 <= k <= months_forward) holds
\* the volume times the number of repricing dates on or after today whose
\* elapsed days fall in bucket k's window; events at or beyond
\* months_forward x 30 days are in no bucket.
C21_GapCountsRepricingEvents ==
    (Returned("repricing_gap") /\ call.portfolio[call.id].ir_binding # "FIX"
       /\ call.months_forward >= 1) =>
        /\ ret.ok
        /\ \A k \in 1..call.months_forward :
              /\ k \in Range(ret.val.index)
              /\ GapAt(ret.val, k)
                   = call.portfolio[call.id].volume
                       * Cardinality(EventsInBucket(call.portfolio[call.id],
                                                    call.today, k))

-----------------------------------------------------------------------------
(* Further claims about amortization_schedule (checked under SpecAmort) *)

\* C22: ANNUITY with rate 0 in every period and tenor T repays
\* principal/(T+1) in each period, principal x T/(T+1) in all, and reports
\* the balance principal/(T+1) for the final period.
C22_ZeroRateAnnuityLeavesInstalment ==
    (AmortReturned("ANNUITY") /\ ZeroRatePath /\ call.maturity >= 1) =>
        /\ ret.ok
        /\ \A i \in 1..call.maturity :
              ret.val.capital[i] = Q(call.volume, call.maturity + 1)
        /\ VSum(ret.val.capital)
             = Q(call.volume * call.maturity, call.maturity + 1)
        /\ ret.val.remaining[call.maturity] = Q(call.volume, call.maturity + 1)


(* Further claims about asset_cashflow and portfolio_cashflow (checked under SpecCashflow) *)
Matured(inst, today) == DtLeq(inst.maturity, today)

AmortizationErrors == {"IndexError", "ZeroDivisionError"}

MaturedFailing(inst, today) ==
    Matured(inst, today) /\ inst.repayment \in {"BULLET", "LINEAR"}

\* C23: for an instrument whose maturity is on or before today asset_cashflow
\* finds no payment date (tenor 0) and, for BULLET and LINEAR repayment, fails
\* with the error of the amortization step (IndexError for BULLET,
\* ZeroDivisionError for LINEAR) instead of returning an empty table;
\* portfolio_cashflow fails for every portfolio that holds such an instrument.
C23_MaturedInstrumentFails ==
    /\ (Returned("asset_cashflow") /\ Matured(CallInstrument, call.today)) =>
          /\ Len(payment_dates_of(CallInstrument, call.today)) = 0
          /\ CallInstrument.repayment = "BULLET" => ret = Raise("IndexError")
          /\ CallInstrument.repayment = "LINEAR" => ret = Raise("ZeroDivisionError")
    /\ (Returned("portfolio_cashflow")
          /\ \E i \in DOMAIN call.portfolio :
                MaturedFailing(call.portfolio[i], call.today)) =>
          /\ ~ret.ok
          /\ (\A i \in DOMAIN call.portfolio :
                 Matured(call.portfolio[i], call.today)) => ret.err \in AmortizationErrors

\* C23 witness: a portfolio whose first instrument is live and whose second
\* is a matured LINEAR one has failed with the amortization step's error
W_C23_MaturedInstrumentFails ==
    /\ Returned("portfolio_cashflow")
    /\ Len(call.portfolio) = 2
    /\ ~Matured(call.portfolio[1], call.today)
    /\ MaturedFailing(call.portfolio[2], call.today)
    /\ call.portfolio[2].repayment = "LINEAR"
    /\ ret = Raise("ZeroDivisionError")

=============================================================================
